---- MODULE Spec2Model ----
(***************************************************************************)
(* drop2s3: three-way reconciliation of media files between the Dropbox    *)
(* "Camera Uploads" directory (inbox), the local working directory         *)
(* (staging) and an S3 bucket (remote).  Modelled from src/drop2s3.py.     *)
(*                                                                         *)
(* One command-line invocation constructs a BackupContext (a fresh         *)
(* in-memory table filled by init_db) and then runs one sub-command.       *)
(***************************************************************************)
EXTENDS Integers, Sequences, FiniteSets, TLC

(* ------------------------------ bounds --------------------------------- *)
MaxStem == 2   \* the file names are 2024-01-0<i>-IMG.<ext>, i in 1..MaxStem
MaxCalls == 4  \* upsert_file_location calls made on one table, called alone
MaxCameraFiles == 2  \* files of the directory whose names are resolved

(* --------------------------- configuration ----------------------------- *)
SUPPORTED_FILE_EXTENSIONS == <<"jpg", "png", "mov", "3gp", "heic", "mp4">>
\* the code keeps the dot (".mov"); os.path.splitext returns it with the dot
VIDEO_FILE_EXTENSIONS == {".mov", ".3gp", ".mp4"}

\* the file names that exist: 2024-01-01-IMG.mov, 2024-01-02-IMG.jpg,
\* 2024-01-03-IMG.jpg, ...: a video that sorts before the images
NameOf(i) == [stem |-> i, ext |-> IF i = 1 THEN "mov" ELSE "jpg"]
Names == {NameOf(i) : i \in 1..MaxStem}
\* what a path holds: nothing, or a file with one of two byte contents
\* (filecmp.cmp only tells equal from different)
Original == "original bytes"
Contents == {Original, "other bytes"}
NoFile == "no file"
\* the one file name of which Camera Uploads/sub may hold a second file
SubNames == {NameOf(2)}

\* an object the bucket may hold below the partition's prefix although no
\* glob of the scan matches it: 2024-01-00-NOTE.txt
ForeignNames == {[stem |-> 0, ext |-> "txt"]}

InboxDirs == {".", "sub"}            \* Camera Uploads and one subdirectory
WorkDirs == {".", "video"}           \* working dir and its video child
InboxPaths == [dir : InboxDirs, name : Names]
\* paths below local_working_dir, and keys below dir_prefix in the bucket
RelPaths == [dir : WorkDirs, name : Names \cup ForeignNames]

(* ------------------------------- state --------------------------------- *)
VARIABLES
  inbox,                 \* [InboxPaths -> Contents or NoFile]  Dropbox files
  staging,               \* [RelPaths -> Contents or NoFile]  working dir files
  remote,                \* [RelPaths -> Contents or NoFile]  bucket objects
  workdirExists,         \* local_working_dir exists
  videoExists,           \* local_working_dir / "video" exists
  pc,                    \* position of the command-line process
  db,                    \* rows of table files, in rowid order
  dropbox_filenames,     \* BackupContext.dropbox_filenames
  working_dir_filenames, \* BackupContext.working_dir_filenames
  bucket_file_paths,     \* BackupContext.bucket_file_paths
  bucket_filenames,      \* BackupContext.bucket_filenames
  dryrunOpt,             \* --dryrun of the running workflow
  last,                  \* the last command: name, dryrun, outcome, trace
  pre,                   \* the files when the last command started
  inbox0,                \* the inbox at the start (history)
  calls,                 \* the upserts made on the table since it was
                         \* created, in call order (history)
  dropbox_dir,           \* the directory given to the year/month detection
  combinations,          \* what detect_year_month_combinations returned
  device,                \* --device
  camera_dir,            \* the names of the files of one flat directory
  resolved               \* for each name a scan of camera_dir returned: its
                         \* working-dir path and its bucket key

world == <<inbox, staging, remote, workdirExists, videoExists>>
ctx == <<db, dropbox_filenames, working_dir_filenames, bucket_file_paths,
         bucket_filenames, calls>>
detection == <<dropbox_dir, combinations>>
resolution == <<device, camera_dir, resolved>>
vars == <<inbox, staging, remote, workdirExists, videoExists, pc, db,
          dropbox_filenames, working_dir_filenames, bucket_file_paths,
          bucket_filenames, dryrunOpt, last, pre, inbox0, calls, dropbox_dir,
          combinations, device, camera_dir, resolved>>

(* --------------------------- names and paths --------------------------- *)
\* rank of an extension in lexicographic (byte) order of the strings
ExtRank(e) ==
  CASE e = "3gp" -> 1 [] e = "heic" -> 2 [] e = "jpg" -> 3
    [] e = "mov" -> 4 [] e = "mp4" -> 5 [] e = "png" -> 6 [] OTHER -> 7

\* "2024-01-0<s>-IMG.<e>" compared as strings: the stem digit decides first
NameLess(a, b) ==
  \/ a.stem < b.stem
  \/ a.stem = b.stem /\ ExtRank(a.ext) < ExtRank(b.ext)

\* pathlib orders paths part by part; a date-prefixed file name ("2024-..")
\* sorts before the directory names "sub" and "video" (digits before letters)
PathLess(p, q) ==
  \/ p.dir = "." /\ q.dir # "."
  \/ p.dir = q.dir /\ NameLess(p.name, q.name)

\* os.path.splitext(filename)[1]
splitext(n) == "." \o n.ext

\* BackupContext.get_file_destination_path, relative to base_dir
get_file_destination_path(n) ==
  IF splitext(n) \in VIDEO_FILE_EXTENSIONS
    THEN [dir |-> "video", name |-> n]
    ELSE [dir |-> ".", name |-> n]

\* the bucket key of upload(), relative to dir_prefix
bucket_key(n) ==
  IF splitext(n) \in VIDEO_FILE_EXTENSIONS
    THEN [dir |-> "video", name |-> n]
    ELSE [dir |-> ".", name |-> n]

\* the paths below a root that are files; a root that does not exist has none
Present(fs) == {p \in DOMAIN fs : fs[p] # NoFile}

RECURSIVE SortedPaths_descending(_)
\* a slip: sorted(file_glob, reverse=True)
SortedPaths_descending(S) ==
  IF S = {} THEN <<>>
  ELSE LET m == CHOOSE p \in S : \A q \in S \ {p} : PathLess(q, p)
       IN <<m>> \o SortedPaths_descending(S \ {m})

RECURSIVE SortedPaths(_)
\* sorted(file_glob)
SortedPaths(S) ==
  IF S = {} THEN <<>>
  ELSE LET m == CHOOSE p \in S : \A q \in S \ {p} : PathLess(p, q)
       IN <<m>> \o SortedPaths(S \ {m})

\* [x.name for x in ...], [Path(x).name for x in ...]
PathNames(s) == [i \in DOMAIN s |-> s[i].name]

\* BackupContext.get_glob_pattern for a device other than NikonCoolpix:
\* **/{year}-{month}-*.{ext} matches at any depth; every name of Names
\* carries the partition's date prefix
GlobMatches(p, file_ext) == p.name.ext = file_ext

RECURSIVE ScanExts(_, _)
\* the paths the globs of _scan_directory yield: one sorted glob per
\* supported extension, in the order of SUPPORTED_FILE_EXTENSIONS
ScanExts(paths, i) ==
  IF i > Len(SUPPORTED_FILE_EXTENSIONS) THEN <<>>
  ELSE SortedPaths({p \in paths :
                      GlobMatches(p, SUPPORTED_FILE_EXTENSIONS[i])})
       \o ScanExts(paths, i + 1)

ScanPaths(fs) == ScanExts(Present(fs), 1)

\* a slip: the names the patterns could match are returned, whether such
\* files exist below the root or not
_scan_directory_unchecked(fs) == PathNames(ScanExts(DOMAIN fs, 1))

\* BackupContext._scan_directory: the names (x.name) of the globbed paths; a
\* directory that does not exist has no entries
_scan_directory(fs) == PathNames(ScanPaths(fs))

\* bucket.objects.filter(Prefix=dir_prefix): keys in ascending order, those
\* with an empty suffix dropped (every key of RelPaths has a suffix)
ListBucket(fs) == SortedPaths(Present(fs))

(* -------------------------- DatabaseManager ---------------------------- *)
NewRow(n) == [Filename |-> n, InDropbox |-> 0, InWorkingDir |-> 0, InS3 |-> 0]

HasRow(t, n) == \E i \in DOMAIN t : t[i].Filename = n

\* the columns upsert_file_location is called with
Columns == {"InDropbox", "InWorkingDir", "InS3"}

\* a slip: ON CONFLICT DO NOTHING, an existing row is left as it is
upsert_file_location_ignores(t, n, column) ==
  IF HasRow(t, n) THEN t ELSE Append(t, [NewRow(n) EXCEPT ![column] = 1])

\* a slip: the INSERT names only Filename, the new row keeps its defaults
upsert_file_location_defaults(t, n, column) ==
  IF HasRow(t, n)
    THEN [i \in DOMAIN t |->
            IF t[i].Filename = n THEN [t[i] EXCEPT ![column] = 1] ELSE t[i]]
    ELSE Append(t, NewRow(n))

\* a slip: Filename is no key, every call inserts a row
upsert_file_location_appends(t, n, column) ==
  Append(t, [NewRow(n) EXCEPT ![column] = 1])

\* a slip: on conflict the column is flipped
upsert_file_location_toggles(t, n, column) ==
  IF HasRow(t, n)
    THEN [i \in DOMAIN t |->
            IF t[i].Filename = n THEN [t[i] EXCEPT ![column] = 1 - @]
            ELSE t[i]]
    ELSE Append(t, [NewRow(n) EXCEPT ![column] = 1])

\* a slip: INSERT OR REPLACE, the row is written anew with one column set
upsert_file_location_replaces(t, n, column) ==
  IF HasRow(t, n)
    THEN [i \in DOMAIN t |->
            IF t[i].Filename = n THEN [NewRow(n) EXCEPT ![column] = 1]
            ELSE t[i]]
    ELSE Append(t, [NewRow(n) EXCEPT ![column] = 1])

\* DatabaseManager.upsert_file_location: INSERT ... ON CONFLICT (Filename)
\* DO UPDATE SET column = 1
upsert_file_location(t, n, column) ==
  IF HasRow(t, n)
    THEN [i \in DOMAIN t |->
            IF t[i].Filename = n THEN [t[i] EXCEPT ![column] = 1] ELSE t[i]]
    ELSE Append(t, [NewRow(n) EXCEPT ![column] = 1])

\* DatabaseManager.get_file_row: SELECT * FROM files WHERE Filename = ?
get_file_row(t, n) == t[CHOOSE i \in DOMAIN t : t[i].Filename = n]

RECURSIVE UpsertAll(_, _, _)
UpsertAll(t, names, column) ==
  IF names = <<>> THEN t
  ELSE UpsertAll(upsert_file_location(t, Head(names), column),
                 Tail(names), column)

\* the calls upsert_file_location(file_name, column) of one loop of init_db
CallsOf(names, column) ==
  [i \in DOMAIN names |-> [file_name |-> names[i], column |-> column]]

\* BackupContext.init_db: scan the three locations, then upsert each list
\* into the table it is given (the table is not emptied here)
init_db(t) ==
  LET dn == _scan_directory(inbox)
      wn == _scan_directory(staging)
      bp == ListBucket(remote)
      bn == PathNames(bp)
  IN [db |-> UpsertAll(UpsertAll(UpsertAll(t, dn, "InDropbox"),
                                 wn, "InWorkingDir"), bn, "InS3"),
      dropbox_filenames |-> dn,
      working_dir_filenames |-> wn,
      bucket_file_paths |-> bp,
      bucket_filenames |-> bn,
      calls |-> CallsOf(dn, "InDropbox") \o CallsOf(wn, "InWorkingDir")
                  \o CallsOf(bn, "InS3")]

(* ------------------------ the device's file names --------------------- *)
\* file names of a camera directory: 2024-01-05-IMG.<ext>,
\* 2024-01-05-DSCN0002.<ext> and DSCN0001.<ext>, the extension written in
\* lower or in upper case
CameraStems == {"2024-01-05-IMG", "2024-01-05-DSCN0002", "DSCN0001"}
CameraExts == {"jpg", "JPG", "png", "PNG", "mov", "MOV",
               "3gp", "3GP", "heic", "HEIC", "mp4", "MP4"}
CameraNames == [stem : CameraStems, ext : CameraExts]
Devices == {"default", "NikonCoolpix"}

\* file_ext.upper()
upper(file_ext) ==
  CASE file_ext = "jpg" -> "JPG" [] file_ext = "png" -> "PNG"
    [] file_ext = "mov" -> "MOV" [] file_ext = "3gp" -> "3GP"
    [] file_ext = "heic" -> "HEIC" [] file_ext = "mp4" -> "MP4"

\* BackupContext.get_glob_pattern, year 2024 and month 01:
\* **/*DSCN*.<EXT> for NikonCoolpix, **/2024-01-*.<ext> otherwise
get_glob_pattern(dev, file_ext) ==
  IF dev = "NikonCoolpix"
    THEN [stem |-> "*DSCN*", ext |-> upper(file_ext)]
    ELSE [stem |-> "2024-01-*", ext |-> file_ext]

\* the name matches the pattern; matching is case-sensitive
glob_matches(pattern, n) ==
  /\ n.ext = pattern.ext
  /\ IF pattern.stem = "*DSCN*"
       THEN n.stem \in {"2024-01-05-DSCN0002", "DSCN0001"}
       ELSE n.stem \in {"2024-01-05-IMG", "2024-01-05-DSCN0002"}

\* rank of a stem in the order of the strings
StemRank(stem) ==
  CASE stem = "2024-01-05-DSCN0002" -> 1 [] stem = "2024-01-05-IMG" -> 2
    [] stem = "DSCN0001" -> 3

RECURSIVE SortedNames(_)
\* sorted(file_glob) of files of one directory that share their extension
SortedNames(S) ==
  IF S = {} THEN <<>>
  ELSE LET m == CHOOSE n \in S :
                  \A q \in S \ {n} : StemRank(n.stem) < StemRank(q.stem)
       IN <<m>> \o SortedNames(S \ {m})

RECURSIVE ScanDevice(_, _, _)
ScanDevice(dev, files, i) ==
  IF i > Len(SUPPORTED_FILE_EXTENSIONS) THEN <<>>
  ELSE SortedNames({n \in files :
                      glob_matches(
                        get_glob_pattern(dev, SUPPORTED_FILE_EXTENSIONS[i]),
                        n)})
       \o ScanDevice(dev, files, i + 1)

\* BackupContext._scan_directory of a directory without subdirectories, for
\* the given device
_scan_directory_of_device(dev, files) == ScanDevice(dev, files, 1)

(* ------------------- keys and paths, written out ---------------------- *)
\* a string is written as the sequence of its pieces, "/" being a piece of
\* its own, so that the string can be split at its slashes; a Path is the
\* sequence of its parts

\* what --device may be given: text, nothing, text with a slash, a dot
PathDevices == {"default", "NikonCoolpix", "", "my/phone", "."}

PiecesOf(dev) ==
  CASE dev = "" -> <<>>
    [] dev = "my/phone" -> <<"my", "/", "phone">>
    [] OTHER -> <<dev>>

\* the file name as one string
FileName(n) == n.stem \o "." \o n.ext

\* a slip: the template ends without a slash
dir_prefix_without_slash(dev) ==
  <<"photos", "/", "2024", "/", "01", "/">> \o PiecesOf(dev)

\* S3_PREFIX_TEMPLATE.format(year="2024", month="01", device=dev)
dir_prefix(dev) ==
  <<"photos", "/", "2024", "/", "01", "/">> \o PiecesOf(dev) \o <<"/">>

RECURSIVE SplitParts(_, _)
\* the parts pathlib makes of a relative string: the text between slashes,
\* empty text and "." left out; part is the text read since the last slash
SplitParts(str, part) ==
  IF str = <<>>
    THEN IF part \in {"", "."} THEN <<>> ELSE <<part>>
  ELSE IF Head(str) = "/"
    THEN (IF part \in {"", "."} THEN <<>> ELSE <<part>>)
         \o SplitParts(Tail(str), "")
  ELSE SplitParts(Tail(str), part \o Head(str))

\* homedir / LOCAL_PICTURES_DIR / bucket_name
local_bucket_dir == <<"~", "Pictures", "s3", "my-bucket">>

\* local_bucket_dir / dir_prefix
local_working_dir(dev) == local_bucket_dir \o SplitParts(dir_prefix(dev), "")

\* get_file_destination_path(filename, local_working_dir), the whole path
workdir_file_path_of(dev, n) ==
  IF splitext(n) \in VIDEO_FILE_EXTENSIONS
    THEN local_working_dir(dev) \o <<"video", FileName(n)>>
    ELSE local_working_dir(dev) \o <<FileName(n)>>

\* upload: dir_prefix + "video/" + workdir_filename, or dir_prefix +
\* workdir_filename
bucket_key_of(dev, n) ==
  IF splitext(n) \in VIDEO_FILE_EXTENSIONS
    THEN dir_prefix(dev) \o <<"video", "/">> \o <<FileName(n)>>
    ELSE dir_prefix(dev) \o <<FileName(n)>>

\* download: dest_path = local_bucket_dir / key
download_dest_path(key) == local_bucket_dir \o SplitParts(key, "")

(* ------------------- detect_year_month_combinations -------------------- *)
\* file names are sequences of characters here, so that the pattern can be
\* matched character by character; the names a Camera Uploads directory
\* may hold, at any depth:
CandidateNames ==
  {<<"2", "0", "2", "4", "-", "0", "1", "-", "1", "5", "-", "a">>,   \* a file of January 2024
   <<"2", "0", "2", "4", "-", "0", "1", "-", "2", "0", "-", "b">>,   \* a second file of January 2024
   <<"2", "0", "2", "4", "-", "0", "2", "-", "1", "0">>,   \* a name that is a date and nothing more
   <<"2", "0", "2", "3", "-", "1", "2", "-", "2", "5", ".", "j">>,   \* a file of December 2023
   <<"i", "n", "v", "a", "l", "i", "d", ".", "j", "p", "g">>,   \* no date at all
   <<"2", "0", "2", "4", "-", "1", "-", "0", "5", "-", "a">>,   \* a month of one digit
   <<"a", "2", "0", "2", "4", "-", "0", "1", "-", "1", "5">>,   \* a date, but not at the start
   <<"2", "0", "2", "4", "-", "1", "0", "-", "0", "x">>,   \* a day of one digit
   <<"1", "9", "9", "9", "-", "1", "3", "-", "0", "0", "z">>}   \* digits in the date form that are no calendar date

\* the candidates that may also be directories instead of files
DirCandidates == {<<"2", "0", "2", "4", "-", "0", "1", "-", "1", "5", "-", "a">>,
                  <<"i", "n", "v", "a", "l", "i", "d", ".", "j", "p", "g">>}

\* what there is of a candidate name below the directory
EntryKinds(n) ==
  IF n \in DirCandidates THEN {"absent", "file", "dir"} ELSE {"absent", "file"}

\* no directory was given: the partition came from --year and --month
NoDirectory == [exists |-> FALSE, kind |-> [n \in CandidateNames |-> "absent"]]

\* \d for the characters of the candidates
IsDigit(c) == c \in {"0", "1", "2", "3", "4", "5", "6", "7", "8", "9"}

\* a slip: the pattern r'^(\d{4})-(\d{2})-', the day is not asked for
date_pattern_without_day(name) ==
  /\ Len(name) >= 8
  /\ \A i \in {1, 2, 3, 4, 6, 7} : IsDigit(name[i])
  /\ name[5] = "-" /\ name[8] = "-"

\* date_pattern.match(name) for r'^(\d{4})-(\d{2})-\d{2}': is there a match
date_pattern_match(name) ==
  /\ Len(name) >= 10
  /\ \A i \in {1, 2, 3, 4, 6, 7, 9, 10} : IsDigit(name[i])
  /\ name[5] = "-" /\ name[8] = "-"

\* match.groups(): (year, month)
match_groups(name) == <<SubSeq(name, 1, 4), SubSeq(name, 6, 7)>>

\* the code point order of the digits
DigitValue(c) ==
  CASE c = "0" -> 0 [] c = "1" -> 1 [] c = "2" -> 2 [] c = "3" -> 3
    [] c = "4" -> 4 [] c = "5" -> 5 [] c = "6" -> 6 [] c = "7" -> 7
    [] c = "8" -> 8 [] c = "9" -> 9

\* str < str for two strings of digits of the same length
DigitsLess(a, b) ==
  \E i \in DOMAIN a :
    /\ \A k \in 1..(i - 1) : a[k] = b[k]
    /\ DigitValue(a[i]) < DigitValue(b[i])

\* tuple < tuple for (year, month)
TupleLess(t, u) ==
  \/ DigitsLess(t[1], u[1])
  \/ t[1] = u[1] /\ DigitsLess(t[2], u[2])

RECURSIVE sorted_combinations(_)
\* sorted(year_month_set), as the list of dictionaries that is returned
sorted_combinations(year_month_set) ==
  IF year_month_set = {} THEN <<>>
  ELSE LET m == CHOOSE t \in year_month_set :
                  \A u \in year_month_set \ {t} : TupleLess(t, u)
       IN <<[year |-> m[1], month |-> m[2]]>>
            \o sorted_combinations(year_month_set \ {m})

\* detect_year_month_combinations(dropbox_dir)
detect_year_month_combinations(dir) ==
  IF ~dir.exists THEN <<>>
  ELSE sorted_combinations(
         {match_groups(n) :
            n \in {m \in CandidateNames :
                     dir.kind[m] = "file" /\ date_pattern_match(m)}})

(* ------------------------------ snapshots ------------------------------ *)
World == [inbox |-> inbox, staging |-> staging, remote |-> remote,
          workdirExists |-> workdirExists, videoExists |-> videoExists]

NoCommand == [op |-> "none", dryrun |-> FALSE, outcome |-> "none",
              trace |-> <<>>]

(* ------------------------------- Init ---------------------------------- *)
\* what exists of one file name at the start: the Dropbox original in
\* Camera Uploads and/or in its subdirectory, a working-dir copy and a bucket
\* object at the file's computed path, with equal or other bytes
FileConfigs == [box : {NoFile, Original}, sub : {NoFile, Original},
                work : Contents \cup {NoFile}, s3 : Contents \cup {NoFile}]

\* the start, with the foreign object of the bucket one of ForeignContents
InitWith(ForeignContents) ==
  /\ \E cfg \in [Names -> FileConfigs], foreign \in ForeignContents :
       /\ \A n \in Names \ SubNames : cfg[n].sub = NoFile
       /\ inbox = [p \in InboxPaths |->
                     IF p.dir = "." THEN cfg[p.name].box ELSE cfg[p.name].sub]
       /\ staging = [p \in RelPaths |->
                       IF p.name \in Names /\ p = get_file_destination_path(p.name)
                         THEN cfg[p.name].work ELSE NoFile]
       /\ remote = [p \in RelPaths |->
                      IF p.name \in Names /\ p = bucket_key(p.name)
                        THEN cfg[p.name].s3
                      ELSE IF p.name \in ForeignNames /\ p.dir = "."
                        THEN foreign
                      ELSE NoFile]
  /\ workdirExists \in BOOLEAN
  /\ videoExists \in BOOLEAN
  /\ videoExists => workdirExists
  /\ (\E p \in Present(staging) : TRUE) => workdirExists
  /\ (\E p \in Present(staging) : p.dir = "video") => videoExists
  /\ pc = "idle"
  /\ db = <<>>
  /\ dropbox_filenames = <<>>
  /\ working_dir_filenames = <<>>
  /\ bucket_file_paths = <<>>
  /\ bucket_filenames = <<>>
  /\ dryrunOpt = FALSE
  /\ last = NoCommand
  /\ pre = World
  /\ inbox0 = inbox
  /\ calls = <<>>
  /\ dropbox_dir = NoDirectory
  /\ combinations = <<>>
  /\ device = "default"
  /\ camera_dir = {}
  /\ resolved = <<>>

\* the bucket holds only objects of the partition's media files
Init == InitWith({NoFile})

\* the bucket may hold the foreign object too
InitListing == InitWith({NoFile, Original})

(* ---------------------- BackupContext.__init__ ------------------------- *)
\* cli(): a new process builds its BackupContext: DatabaseManager() creates
\* the empty table, init_db() fills it
Cli ==
  /\ pc = "idle"
  /\ LET c == init_db(<<>>)
     IN /\ db' = c.db
        /\ dropbox_filenames' = c.dropbox_filenames
        /\ working_dir_filenames' = c.working_dir_filenames
        /\ bucket_file_paths' = c.bucket_file_paths
        /\ bucket_filenames' = c.bucket_filenames
        /\ calls' = c.calls
  /\ pc' = "ctx"
  /\ last' = NoCommand
  /\ pre' = World
  /\ UNCHANGED <<world, dryrunOpt, inbox0, detection, resolution>>

(* ------------------------------ helpers -------------------------------- *)
Root(n) == [dir |-> ".", name |-> n]

\* the directory a working-dir path lies in exists
ParentExists(w, p) ==
  IF p.dir = "video" THEN w.videoExists ELSE w.workdirExists

Entry(n, a) == [file |-> n, action |-> a]

\* a slip: the file is moved, not copied
copy2_moves(w, src, dest_path) ==
  [w EXCEPT !.staging[dest_path] = w.inbox[src], !.inbox[src] = NoFile]

\* shutil.copy2(Camera Uploads/<name>, dest_path)
copy2(w, src, dest_path) == [w EXCEPT !.staging[dest_path] = w.inbox[src]]

\* os.remove(dropbox_file_path)
os_remove(w, dropbox_file_path) ==
  [w EXCEPT !.inbox[dropbox_file_path] = NoFile]

\* a slip: the object is written at the top of the prefix, whatever the key
upload_file_flat(w, workdir_file_path, key) ==
  [w EXCEPT !.remote[Root(key.name)] = w.staging[workdir_file_path]]

\* bucket.upload_file(workdir_file_path, bucket_key)
upload_file(w, workdir_file_path, key) ==
  [w EXCEPT !.remote[key] = w.staging[workdir_file_path]]

\* dest_path.parent.mkdir(parents=True, exist_ok=True);
\* bucket.download_file(key, dest_path)
download_file(w, key, dest_path) ==
  [w EXCEPT !.workdirExists = TRUE,
            !.videoExists = (@ \/ dest_path.dir = "video"),
            !.staging[dest_path] = w.remote[key]]

\* the exit status of the process
ExitCode(outcome) == IF outcome = "ok" THEN 0 ELSE 1

Result(w, trace, outcome) == [w |-> w, trace |-> trace, outcome |-> outcome]

\* BackupContext.mkdir; confirm is the user's answer to click.confirm
\* (abort=True: "no" raises Abort)
mkdir(w, confirm) ==
  IF ~w.workdirExists
    THEN IF confirm
           THEN Result([w EXCEPT !.workdirExists = TRUE,
                                 !.videoExists = TRUE], <<>>, "ok")
           ELSE Result(w, <<>>, "declined")
    ELSE Result(w, <<>>, "ok")

\* the answers the user can give to mkdir's prompt: there is a prompt only
\* when the working dir does not exist
Answers(w) == IF w.workdirExists THEN {TRUE} ELSE BOOLEAN

(* --------------------------------- cp ---------------------------------- *)
\* a slip: the column of the inbox is read, with the sense turned round
cp_skips_if_not_in_dropbox(file_row) == file_row.InDropbox = 0

\* a slip: nothing is ever skipped
cp_skips_never(file_row) == FALSE

\* a slip: the wrong column is read
cp_skips_if_in_s3(file_row) == file_row.InS3 = 1

cp_skips(file_row) == file_row.InWorkingDir = 1

RECURSIVE cp_loop(_, _, _, _, _)
\* the loop of cp over dropbox_filenames; copy2 raises when the source is
\* not at Camera Uploads/<name> or the destination directory is missing
cp_loop(w, t, names, dryrun, trace) ==
  IF names = <<>> THEN Result(w, trace, "ok")
  ELSE
    LET n == Head(names)
        file_row == get_file_row(t, n)
        dest_path == get_file_destination_path(n)
    IN IF cp_skips(file_row)
         THEN cp_loop(w, t, Tail(names), dryrun, Append(trace, Entry(n, "skip")))
       ELSE IF dryrun
         THEN cp_loop(w, t, Tail(names), dryrun, Append(trace, Entry(n, "copy")))
       ELSE IF w.inbox[Root(n)] = NoFile \/ ~ParentExists(w, dest_path)
         THEN Result(w, Append(trace, Entry(n, "copy")), "crash")
       ELSE cp_loop(copy2(w, Root(n), dest_path),
                    t, Tail(names), dryrun, Append(trace, Entry(n, "copy")))

\* cp: mkdir() first, whatever dryrun is, then the loop
cp(w, t, names, dryrun, confirm) ==
  LET m == mkdir(w, confirm)
  IN IF m.outcome # "ok" THEN m
     ELSE cp_loop(m.w, t, names, dryrun, <<>>)

(* -------------------------- rm_dropbox_files --------------------------- *)
\* a slip: "or" for "and"
rm_selects_either(in_workdir, in_s3) == in_workdir = 1 \/ in_s3 = 1

\* a slip: the bucket is not consulted
rm_selects_workdir_only(in_workdir, in_s3) == in_workdir = 1

rm_selects(in_workdir, in_s3) == in_workdir = 1 /\ in_s3 = 1

\* a slip: the bytes are not looked at
filecmp_cmp_blind(c1, c2) == TRUE

\* filecmp.cmp(f1, f2, shallow=False) of two existing files
filecmp_cmp(c1, c2) == c1 = c2

RECURSIVE rm_loop(_, _, _, _, _)
\* the loop of rm_dropbox_files over dropbox_filenames; filecmp.cmp raises
\* when one of the two paths does not exist; sys.exit(1) when they differ
rm_loop(w, t, names, dryrun, trace) ==
  IF names = <<>> THEN Result(w, trace, "ok")
  ELSE
    LET n == Head(names)
        file_row == get_file_row(t, n)
        in_workdir == file_row.InWorkingDir
        in_s3 == file_row.InS3
        dropbox_file_path == Root(n)
        workdir_file_path == get_file_destination_path(n)
    IN IF rm_selects(in_workdir, in_s3)
         THEN IF w.inbox[dropbox_file_path] = NoFile
                 \/ w.staging[workdir_file_path] = NoFile
                THEN Result(w, trace, "crash")
              ELSE IF filecmp_cmp(w.inbox[dropbox_file_path],
                                  w.staging[workdir_file_path])
                THEN IF dryrun
                       THEN rm_loop(w, t, Tail(names), dryrun,
                                    Append(trace, Entry(n, "delete")))
                       ELSE rm_loop(os_remove(w, dropbox_file_path),
                                    t, Tail(names), dryrun,
                                    Append(trace, Entry(n, "delete")))
              ELSE Result(w, Append(trace, Entry(n, "abort")), "abort")
       ELSE rm_loop(w, t, Tail(names), dryrun, Append(trace, Entry(n, "skip")))

RECURSIVE rm_loop_continues(_, _, _, _, _)
\* a slip: a differing file is reported and passed over, the pass goes on
rm_loop_continues(w, t, names, dryrun, trace) ==
  IF names = <<>> THEN Result(w, trace, "ok")
  ELSE
    LET n == Head(names)
        file_row == get_file_row(t, n)
        dropbox_file_path == Root(n)
        workdir_file_path == get_file_destination_path(n)
    IN IF rm_selects(file_row.InWorkingDir, file_row.InS3)
         THEN IF w.inbox[dropbox_file_path] = NoFile
                 \/ w.staging[workdir_file_path] = NoFile
                THEN Result(w, trace, "crash")
              ELSE IF filecmp_cmp(w.inbox[dropbox_file_path],
                                  w.staging[workdir_file_path])
                THEN rm_loop_continues(
                       IF dryrun THEN w ELSE os_remove(w, dropbox_file_path),
                       t, Tail(names), dryrun,
                       Append(trace, Entry(n, "delete")))
              ELSE rm_loop_continues(w, t, Tail(names), dryrun,
                                     Append(trace, Entry(n, "abort")))
       ELSE rm_loop_continues(w, t, Tail(names), dryrun,
                              Append(trace, Entry(n, "skip")))

rm_dropbox_files_continues(w, t, names, dryrun) ==
  rm_loop_continues(w, t, names, dryrun, <<>>)

rm_dropbox_files(w, t, names, dryrun) == rm_loop(w, t, names, dryrun, <<>>)

(* ------------------------------- upload -------------------------------- *)
\* a slip: nothing is ever skipped
upload_skips_never(file_row) == FALSE

upload_skips(file_row) == file_row.InS3 = 1

RECURSIVE upload_loop(_, _, _, _, _)
\* the loop of upload over working_dir_filenames; upload_file raises when
\* the file is not at its computed working-dir path
upload_loop(w, t, names, dryrun, trace) ==
  IF names = <<>> THEN Result(w, trace, "ok")
  ELSE
    LET n == Head(names)
        file_row == get_file_row(t, n)
        key == bucket_key(n)
        workdir_file_path == get_file_destination_path(n)
    IN IF upload_skips(file_row)
         THEN upload_loop(w, t, Tail(names), dryrun,
                          Append(trace, Entry(n, "skip")))
       ELSE IF dryrun
         THEN upload_loop(w, t, Tail(names), dryrun,
                          Append(trace, Entry(n, "upload")))
       ELSE IF w.staging[workdir_file_path] = NoFile
         THEN Result(w, Append(trace, Entry(n, "upload")), "crash")
       ELSE upload_loop(upload_file(w, workdir_file_path, key),
                        t, Tail(names), dryrun,
                        Append(trace, Entry(n, "upload")))

upload(w, t, names, dryrun) == upload_loop(w, t, names, dryrun, <<>>)

(* ------------------------------ download ------------------------------- *)
RECURSIVE download_loop(_, _, _, _)
\* the loop of download over bucket_file_paths: dest_path is
\* local_bucket_dir / key, its parents are created, the object is written
download_loop(w, keys, dryrun, trace) ==
  IF keys = <<>> THEN Result(w, trace, "ok")
  ELSE
    LET key == Head(keys)
        dest_path == key
    IN IF dryrun
         THEN download_loop(w, Tail(keys), dryrun,
                            Append(trace, Entry(key.name, "download")))
       ELSE download_loop(download_file(w, key, dest_path),
                          Tail(keys), dryrun,
                          Append(trace, Entry(key.name, "download")))

\* download: mkdir() only when not a dry run
download(w, keys, dryrun, confirm) ==
  LET m == IF dryrun THEN Result(w, <<>>, "ok") ELSE mkdir(w, confirm)
  IN IF m.outcome # "ok" THEN m
     ELSE download_loop(m.w, keys, dryrun, <<>>)

(* ------------------------- a transfer that raises ---------------------- *)
\* cp when the copy2 call made for position k of dropbox_filenames raises
\* (disk full, permission, unreadable source): no try surrounds it, the
\* loop ends there. copy2 opens the destination before it copies, so the
\* destination is left as it was or is left with part of the bytes. When
\* position k makes no copy2 call the command runs as cp does.
cp_raising(w, t, names, dryrun, confirm, k, partial) ==
  LET m == mkdir(w, confirm)
      before == cp_loop(m.w, t, SubSeq(names, 1, k - 1), dryrun, <<>>)
      n == names[k]
      dest_path == get_file_destination_path(n)
  IN IF m.outcome = "ok" /\ before.outcome = "ok" /\ ~dryrun
        /\ ~cp_skips(get_file_row(t, n))
       THEN Result(IF partial /\ ParentExists(before.w, dest_path)
                     THEN [before.w EXCEPT !.staging[dest_path] = "other bytes"]
                     ELSE before.w,
                   Append(before.trace, Entry(n, "copy")), "crash")
     ELSE cp(w, t, names, dryrun, confirm)

\* upload when the upload_file call made for position k of
\* working_dir_filenames raises (network, credentials): the object appears
\* in the bucket only when the transfer has completed
upload_raising(w, t, names, dryrun, k) ==
  LET before == upload_loop(w, t, SubSeq(names, 1, k - 1), dryrun, <<>>)
      n == names[k]
  IN IF before.outcome = "ok" /\ ~dryrun /\ ~upload_skips(get_file_row(t, n))
       THEN Result(before.w, Append(before.trace, Entry(n, "upload")), "crash")
     ELSE upload(w, t, names, dryrun)

\* download when the download_file call made for position k of
\* bucket_file_paths raises: the parents of dest_path were made before the
\* call, and the file appears only when the transfer has completed
download_raising(w, keys, dryrun, confirm, k) ==
  LET m == mkdir(w, confirm)
      before == download_loop(m.w, SubSeq(keys, 1, k - 1), dryrun, <<>>)
      key == keys[k]
  IN IF m.outcome = "ok" /\ ~dryrun
       THEN Result([before.w EXCEPT !.workdirExists = TRUE,
                                    !.videoExists = (@ \/ key.dir = "video")],
                   Append(before.trace, Entry(key.name, "download")), "crash")
     ELSE download(w, keys, dryrun, confirm)

(* ---------------------------- diff reports ----------------------------- *)
\* SELECT * FROM files ORDER BY Filename
RECURSIVE OrderByFilename(_)
OrderByFilename(rows) ==
  IF rows = {} THEN <<>>
  ELSE LET m == CHOOSE r \in rows :
                  \A q \in rows \ {r} : NameLess(r.Filename, q.Filename)
       IN <<m>> \o OrderByFilename(rows \ {m})

Rows(t) == {t[i] : i \in DOMAIN t}

RECURSIVE difflocal_loop(_, _, _)
difflocal_loop(w, rows, trace) ==
  IF rows = <<>> THEN Result(w, trace, "ok")
  ELSE
    LET row == Head(rows)
        filename == row.Filename
        dropbox_file_path == Root(filename)
        workdir_file_path == get_file_destination_path(filename)
    IN IF row.InDropbox = 1 /\ row.InWorkingDir = 1
         THEN IF w.inbox[dropbox_file_path] = NoFile
                 \/ w.staging[workdir_file_path] = NoFile
                THEN Result(w, trace, "crash")
              ELSE IF filecmp_cmp(w.inbox[dropbox_file_path],
                                  w.staging[workdir_file_path])
                THEN difflocal_loop(w, Tail(rows),
                                    Append(trace, Entry(filename, "diff OK")))
              ELSE difflocal_loop(w, Tail(rows),
                                  Append(trace, Entry(filename, "diff NOT OK")))
       ELSE IF row.InDropbox = 1 /\ row.InWorkingDir = 0
         THEN difflocal_loop(w, Tail(rows),
                             Append(trace, Entry(filename, "dropbox only")))
       ELSE IF row.InDropbox = 0 /\ row.InWorkingDir = 0 /\ row.InS3 = 1
         THEN difflocal_loop(w, Tail(rows),
                             Append(trace, Entry(filename, "s3 only")))
       ELSE difflocal_loop(w, Tail(rows), trace)

difflocal(w, t) == difflocal_loop(w, OrderByFilename(Rows(t)), <<>>)

RECURSIVE diffbucket_loop(_, _, _)
diffbucket_loop(w, rows, trace) ==
  IF rows = <<>> THEN Result(w, trace, "ok")
  ELSE
    LET row == Head(rows)
        filename == row.Filename
        status ==
          IF row.InWorkingDir = 1 /\ row.InS3 = 1 THEN "found in s3 & workdir"
          ELSE IF row.InWorkingDir = 1 /\ row.InS3 = 0 THEN "workdir only"
          ELSE IF row.InWorkingDir = 0 /\ row.InS3 = 1 THEN "s3 only"
          ELSE IF row.InWorkingDir = 0 /\ row.InS3 = 0 /\ row.InDropbox = 1
            THEN "dropbox only"
          ELSE "none"
    IN diffbucket_loop(w, Tail(rows),
                       IF status = "none" THEN trace
                       ELSE Append(trace, Entry(filename, status)))

RECURSIVE diffbucket_loop_without_dropbox_only(_, _, _)
\* a slip: the last branch is missing, an inbox-only record prints nothing
diffbucket_loop_without_dropbox_only(w, rows, trace) ==
  IF rows = <<>> THEN Result(w, trace, "ok")
  ELSE
    LET row == Head(rows)
        filename == row.Filename
        status ==
          IF row.InWorkingDir = 1 /\ row.InS3 = 1 THEN "found in s3 & workdir"
          ELSE IF row.InWorkingDir = 1 /\ row.InS3 = 0 THEN "workdir only"
          ELSE IF row.InWorkingDir = 0 /\ row.InS3 = 1 THEN "s3 only"
          ELSE "none"
    IN diffbucket_loop_without_dropbox_only(
         w, Tail(rows),
         IF status = "none" THEN trace
         ELSE Append(trace, Entry(filename, status)))

diffbucket_without_dropbox_only(w, t) ==
  diffbucket_loop_without_dropbox_only(w, OrderByFilename(Rows(t)), <<>>)

diffbucket(w, t) == diffbucket_loop(w, OrderByFilename(Rows(t)), <<>>)

(* ----------------------------- the commands ---------------------------- *)
\* a sub-command ran to its end (or to its exit): the files are as it left
\* them, and the process is over
Finish(op, dryrun, r, nextpc) ==
  /\ inbox' = r.w.inbox
  /\ staging' = r.w.staging
  /\ remote' = r.w.remote
  /\ workdirExists' = r.w.workdirExists
  /\ videoExists' = r.w.videoExists
  /\ last' = [op |-> op, dryrun |-> dryrun, outcome |-> r.outcome,
              trace |-> r.trace]
  /\ pre' = World
  /\ pc' = nextpc
  /\ UNCHANGED <<inbox0, detection, resolution>>

CmdMkdir ==
  /\ pc = "ctx"
  /\ \E confirm \in Answers(World) :
       Finish("mkdir", FALSE, mkdir(World, confirm), "idle")
  /\ UNCHANGED <<ctx, dryrunOpt>>

CmdCp ==
  /\ pc = "ctx"
  /\ \E dryrun \in BOOLEAN, confirm \in Answers(World) :
       Finish("cp", dryrun,
              cp(World, db, dropbox_filenames, dryrun, confirm), "idle")
  /\ UNCHANGED <<ctx, dryrunOpt>>

CmdRmDropboxFiles ==
  /\ pc = "ctx"
  /\ \E dryrun \in BOOLEAN :
       Finish("rm_dropbox_files", dryrun,
              rm_dropbox_files(World, db, dropbox_filenames, dryrun), "idle")
  /\ UNCHANGED <<ctx, dryrunOpt>>

CmdUpload ==
  /\ pc = "ctx"
  /\ \E dryrun \in BOOLEAN :
       Finish("upload", dryrun,
              upload(World, db, working_dir_filenames, dryrun), "idle")
  /\ UNCHANGED <<ctx, dryrunOpt>>

CmdDownload ==
  /\ pc = "ctx"
  /\ \E dryrun \in BOOLEAN, confirm \in Answers(World) :
       Finish("download", dryrun,
              download(World, bucket_file_paths, dryrun, confirm), "idle")
  /\ UNCHANGED <<ctx, dryrunOpt>>

CmdDifflocal ==
  /\ pc = "ctx"
  /\ Finish("difflocal", FALSE, difflocal(World, db), "idle")
  /\ UNCHANGED <<ctx, dryrunOpt>>

CmdDiffbucket ==
  /\ pc = "ctx"
  /\ Finish("diffbucket", FALSE, diffbucket(World, db), "idle")
  /\ UNCHANGED <<ctx, dryrunOpt>>

(* ------------------------------ workflow ------------------------------- *)
\* workflow --dryrun <b>: invoke(mkdir)
WfMkdir ==
  /\ pc = "ctx"
  /\ \E dryrun \in BOOLEAN, confirm \in Answers(World) :
       LET r == mkdir(World, confirm)
       IN /\ Finish("mkdir", dryrun, r,
                    IF r.outcome = "ok" THEN "wf_difflocal" ELSE "idle")
          /\ dryrunOpt' = dryrun
  /\ UNCHANGED ctx

\* workflow: invoke(difflocal), then the prompt "About to copy files"
WfDifflocal ==
  /\ pc = "wf_difflocal"
  /\ LET r == difflocal(World, db)
     IN Finish("difflocal", dryrunOpt, r,
               IF r.outcome = "ok" THEN "wf_confirm_cp" ELSE "idle")
  /\ UNCHANGED <<ctx, dryrunOpt>>

\* a slip: the answer to the prompt is not honoured, the files are copied
\* also when it is "no"
WfCp_ignores_answer ==
  /\ pc = "wf_confirm_cp"
  /\ \E accept \in BOOLEAN :
       LET r == cp(World, db, dropbox_filenames, dryrunOpt, TRUE)
       IN IF accept
            THEN Finish("cp", dryrunOpt, r,
                        IF r.outcome = "ok" /\ ~dryrunOpt
                          THEN "wf_confirm_upload" ELSE "idle")
            ELSE Finish("confirm", dryrunOpt, Result(r.w, <<>>, "declined"),
                        "idle")
  /\ UNCHANGED <<ctx, dryrunOpt>>

\* the answer to "About to copy files to workdir": on yes forward(cp); a dry
\* run ends after it, otherwise the prompt "About to upload files" follows
WfCp ==
  /\ pc = "wf_confirm_cp"
  /\ \E accept \in BOOLEAN :
       IF accept
         THEN LET r == cp(World, db, dropbox_filenames, dryrunOpt, TRUE)
              IN Finish("cp", dryrunOpt, r,
                        IF r.outcome = "ok" /\ ~dryrunOpt
                          THEN "wf_confirm_upload" ELSE "idle")
         ELSE Finish("confirm", dryrunOpt, Result(World, <<>>, "declined"),
                     "idle")
  /\ UNCHANGED <<ctx, dryrunOpt>>

\* the answer to "About to upload files to s3": on yes init_db() again, on
\* the table of this process, then forward(upload)
WfUpload ==
  /\ pc = "wf_confirm_upload"
  /\ \E accept \in BOOLEAN :
       IF accept
         THEN LET c == init_db(db)
              IN /\ db' = c.db
                 /\ dropbox_filenames' = c.dropbox_filenames
                 /\ working_dir_filenames' = c.working_dir_filenames
                 /\ bucket_file_paths' = c.bucket_file_paths
                 /\ bucket_filenames' = c.bucket_filenames
                 /\ calls' = calls \o c.calls
                 /\ Finish("upload", dryrunOpt,
                           upload(World, c.db, c.working_dir_filenames,
                                  dryrunOpt), "idle")
         ELSE /\ Finish("confirm", dryrunOpt,
                        Result(World, <<>>, "declined"), "idle")
              /\ UNCHANGED ctx
  /\ UNCHANGED dryrunOpt

(* ------------------- a second command-line process --------------------- *)
\* while the workflow waits at one of its prompts, another invocation of the
\* program runs to its end: cli() builds its own BackupContext (a new table,
\* its own scan), then rm_dropbox_files --dryrun false; the waiting
\* process keeps its table and its lists
OtherCliRmDropboxFiles ==
  /\ pc \in {"wf_confirm_cp", "wf_confirm_upload"}
  /\ LET c == init_db(<<>>)
     IN Finish("rm_dropbox_files", FALSE,
               rm_dropbox_files(World, c.db, c.dropbox_filenames, FALSE), pc)
  /\ UNCHANGED <<ctx, dryrunOpt>>

NextConcurrent ==
  \/ Cli
  \/ WfMkdir
  \/ WfDifflocal
  \/ WfCp
  \/ WfUpload
  \/ OtherCliRmDropboxFiles

SpecConcurrent == Init /\ [][NextConcurrent]_vars

(* ------------------ a bucket with a foreign object --------------------- *)
\* the commands that read the bucket listing, run on a partition whose
\* bucket prefix may hold an object that is no media file of the partition
NextListing ==
  \/ Cli
  \/ CmdDownload
  \/ CmdDifflocal
  \/ CmdDiffbucket

SpecListing == InitListing /\ [][NextListing]_vars

(* ---------------------- transfers that may raise ---------------------- *)
\* cp, upload and download in an environment where any one transfer of the
\* pass may raise
CmdCpRaising ==
  /\ pc = "ctx"
  /\ \E dryrun \in BOOLEAN, confirm \in Answers(World),
        k \in DOMAIN dropbox_filenames, partial \in BOOLEAN :
       Finish("cp", dryrun,
              cp_raising(World, db, dropbox_filenames, dryrun, confirm,
                         k, partial), "idle")
  /\ UNCHANGED <<ctx, dryrunOpt>>

CmdUploadRaising ==
  /\ pc = "ctx"
  /\ \E dryrun \in BOOLEAN, k \in DOMAIN working_dir_filenames :
       Finish("upload", dryrun,
              upload_raising(World, db, working_dir_filenames, dryrun, k),
              "idle")
  /\ UNCHANGED <<ctx, dryrunOpt>>

CmdDownloadRaising ==
  /\ pc = "ctx"
  /\ \E dryrun \in BOOLEAN, confirm \in Answers(World),
        k \in DOMAIN bucket_file_paths :
       Finish("download", dryrun,
              download_raising(World, bucket_file_paths, dryrun, confirm, k),
              "idle")
  /\ UNCHANGED <<ctx, dryrunOpt>>

NextRaising ==
  \/ Cli
  \/ CmdCp
  \/ CmdUpload
  \/ CmdDownload
  \/ CmdCpRaising
  \/ CmdUploadRaising
  \/ CmdDownloadRaising

SpecRaising == Init /\ [][NextRaising]_vars

(* ------------------ the workflow, then the delete pass ----------------- *)
\* after a workflow that was not a dry run has run to its end, the
\* invocation it recommends: rm-dropbox-files --dryrun false, with a
\* BackupContext of its own (a new table, its own scan)
RmAfterWorkflow ==
  /\ pc = "idle"
  /\ last.op = "upload" /\ ~last.dryrun /\ last.outcome = "ok"
  /\ LET c == init_db(<<>>)
     IN /\ db' = c.db
        /\ dropbox_filenames' = c.dropbox_filenames
        /\ working_dir_filenames' = c.working_dir_filenames
        /\ bucket_file_paths' = c.bucket_file_paths
        /\ bucket_filenames' = c.bucket_filenames
        /\ calls' = c.calls
        /\ Finish("rm_dropbox_files", FALSE,
                  rm_dropbox_files(World, c.db, c.dropbox_filenames, FALSE),
                  "done")
  /\ UNCHANGED dryrunOpt

NextWorkflow ==
  \/ Cli
  \/ WfMkdir
  \/ WfDifflocal
  \/ WfCp
  \/ WfUpload
  \/ RmAfterWorkflow

\* the process goes on from step to step, and a prompt is answered
SpecWorkflow ==
  /\ Init
  /\ [][NextWorkflow]_vars
  /\ WF_vars(WfMkdir)
  /\ WF_vars(WfDifflocal)
  /\ WF_vars(WfCp)
  /\ WF_vars(WfUpload)

(* ------------------- the paths of the scanned names -------------------- *)
\* a BackupContext of either device scans a directory of camera files, and
\* cp and upload compute the working-dir path and the bucket key of each
\* name the scan returned
InitDeviceWith(DeviceNames, MaxFiles) ==
  /\ inbox = [p \in InboxPaths |-> NoFile]
  /\ staging = [p \in RelPaths |-> NoFile]
  /\ remote = [p \in RelPaths |-> NoFile]
  /\ workdirExists = FALSE
  /\ videoExists = FALSE
  /\ pc = "scan"
  /\ db = <<>>
  /\ dropbox_filenames = <<>>
  /\ working_dir_filenames = <<>>
  /\ bucket_file_paths = <<>>
  /\ bucket_filenames = <<>>
  /\ dryrunOpt = FALSE
  /\ last = NoCommand
  /\ pre = World
  /\ inbox0 = inbox
  /\ calls = <<>>
  /\ dropbox_dir = NoDirectory
  /\ combinations = <<>>
  /\ device \in DeviceNames
  /\ \E k \in 0..MaxFiles :
       \E f \in [1..k -> CameraNames] : camera_dir = {f[i] : i \in 1..k}
  /\ resolved = <<>>

InitDevice == InitDeviceWith(Devices, MaxCameraFiles)

ResolvePaths ==
  /\ pc = "scan"
  /\ LET filenames == _scan_directory_of_device(device, camera_dir)
     IN resolved' = [i \in DOMAIN filenames |->
                      [filename |-> filenames[i],
                       dest_path |-> get_file_destination_path(filenames[i]),
                       bucket_key |-> bucket_key(filenames[i])]]
  /\ pc' = "resolved"
  /\ UNCHANGED <<world, ctx, dryrunOpt, last, pre, inbox0, detection,
                 device, camera_dir>>

NextDevice == ResolvePaths

SpecDevice == InitDevice /\ [][NextDevice]_vars

(* ------------------- upload, then download, on paths ------------------ *)
\* the working dir holds at most one file; upload computes the path it
\* reads and the key it writes, download the path it writes for that key
InitRoundTrip == InitDeviceWith(PathDevices, 1)

UploadThenDownload ==
  /\ pc = "scan"
  /\ LET filenames == _scan_directory_of_device(device, camera_dir)
     IN resolved' =
          [i \in DOMAIN filenames |->
             LET key == bucket_key_of(device, filenames[i])
             IN [filename |-> filenames[i],
                 workdir_file_path |-> workdir_file_path_of(device,
                                                            filenames[i]),
                 bucket_key |-> key,
                 dest_path |-> download_dest_path(key)]]
  /\ pc' = "downloaded"
  /\ UNCHANGED <<world, ctx, dryrunOpt, last, pre, inbox0, detection,
                 device, camera_dir>>

NextRoundTrip == UploadThenDownload

SpecRoundTrip == InitRoundTrip /\ [][NextRoundTrip]_vars

(* ------------------- the year/month detection alone ------------------- *)
\* cli() without --year or --month, before a BackupContext exists: the
\* Camera Uploads directory holds any of the candidate names, or is missing
InitDetect ==
  /\ inbox = [p \in InboxPaths |-> NoFile]
  /\ staging = [p \in RelPaths |-> NoFile]
  /\ remote = [p \in RelPaths |-> NoFile]
  /\ workdirExists = FALSE
  /\ videoExists = FALSE
  /\ pc = "detect"
  /\ db = <<>>
  /\ dropbox_filenames = <<>>
  /\ working_dir_filenames = <<>>
  /\ bucket_file_paths = <<>>
  /\ bucket_filenames = <<>>
  /\ dryrunOpt = FALSE
  /\ last = NoCommand
  /\ pre = World
  /\ inbox0 = inbox
  /\ calls = <<>>
  /\ \E exists \in BOOLEAN :
       \E kind \in [CandidateNames -> {"absent", "file", "dir"}] :
         /\ \A n \in CandidateNames : kind[n] \in EntryKinds(n)
         /\ ~exists => \A n \in CandidateNames : kind[n] = "absent"
         /\ dropbox_dir = [exists |-> exists, kind |-> kind]
  /\ combinations = <<>>
  /\ device = "default"
  /\ camera_dir = {}
  /\ resolved = <<>>

\* combinations = detect_year_month_combinations(dropbox_dir)
Detect ==
  /\ pc = "detect"
  /\ combinations' = detect_year_month_combinations(dropbox_dir)
  /\ pc' = "detected"
  /\ UNCHANGED <<world, ctx, dryrunOpt, last, pre, inbox0, dropbox_dir,
                 resolution>>

NextDetect == Detect

SpecDetect == InitDetect /\ [][NextDetect]_vars

(* --------------------- DatabaseManager on its own ---------------------- *)
\* DatabaseManager(): _init_schema has created the empty table; no
\* BackupContext, no files
InitUpsert ==
  /\ inbox = [p \in InboxPaths |-> NoFile]
  /\ staging = [p \in RelPaths |-> NoFile]
  /\ remote = [p \in RelPaths |-> NoFile]
  /\ workdirExists = FALSE
  /\ videoExists = FALSE
  /\ pc = "db_manager"
  /\ db = <<>>
  /\ dropbox_filenames = <<>>
  /\ working_dir_filenames = <<>>
  /\ bucket_file_paths = <<>>
  /\ bucket_filenames = <<>>
  /\ dryrunOpt = FALSE
  /\ last = NoCommand
  /\ pre = World
  /\ inbox0 = inbox
  /\ calls = <<>>
  /\ dropbox_dir = NoDirectory
  /\ combinations = <<>>
  /\ device = "default"
  /\ camera_dir = {}
  /\ resolved = <<>>

\* one call db_manager.upsert_file_location(file_name, column)
Upsert ==
  /\ pc = "db_manager"
  /\ Len(calls) < MaxCalls
  /\ \E file_name \in Names, column \in Columns :
       /\ db' = upsert_file_location(db, file_name, column)
       /\ calls' = Append(calls, [file_name |-> file_name, column |-> column])
  /\ UNCHANGED <<world, pc, dropbox_filenames, working_dir_filenames,
                 bucket_file_paths, bucket_filenames, dryrunOpt, last, pre,
                 inbox0, detection, resolution>>

NextUpsert == Upsert

SpecUpsert == InitUpsert /\ [][NextUpsert]_vars

(* ------------------------- reading a finished pass --------------------- *)
RanRm == last.op = "rm_dropbox_files" /\ ~last.dryrun

\* the inbox paths the last command removed
RemovedPaths == {p \in InboxPaths : pre.inbox[p] # NoFile /\ inbox[p] = NoFile}

\* the record of filename n in the table the last command read
Row(n) == get_file_row(db, n)

\* n is fully synced by its record, and when the pass started its inbox file
\* and its working-dir copy both existed with different bytes
Differs(n) ==
  /\ Row(n).InWorkingDir = 1 /\ Row(n).InS3 = 1
  /\ pre.inbox[Root(n)] # NoFile
  /\ pre.staging[get_file_destination_path(n)] # NoFile
  /\ pre.inbox[Root(n)] # pre.staging[get_file_destination_path(n)]

\* position i of the pass order holds the first differing file
FirstDiffers(i) ==
  /\ i \in DOMAIN dropbox_filenames
  /\ Differs(dropbox_filenames[i])
  /\ \A k \in 1..(i - 1) : ~Differs(dropbox_filenames[k])

\* the inbox path the scan found at position j of the pass order
PassPath(j) == ScanPaths(pre.inbox)[j]

TransferOps == {"cp", "upload", "rm_dropbox_files", "download"}

\* the last transfer operation again, from the files and the table it
\* started from, with --dryrun d and every prompt answered yes
Replay(d) ==
  CASE last.op = "cp" -> cp(pre, db, dropbox_filenames, d, TRUE)
    [] last.op = "rm_dropbox_files" ->
         rm_dropbox_files(pre, db, dropbox_filenames, d)
    [] last.op = "upload" -> upload(pre, db, working_dir_filenames, d)
    [] last.op = "download" -> download(pre, bucket_file_paths, d, TRUE)

\* the flags of a record, (InDropbox, InWorkingDir, InS3)
Flags(row) == <<row.InDropbox, row.InWorkingDir, row.InS3>>

\* a file named n is somewhere below the scanned root
PresentIn(fs, n) == \E p \in DOMAIN fs : p.name = n /\ fs[p] # NoFile

\* the records of a table that says where the files are now
PresenceRows ==
  {[Filename |-> n,
    InDropbox |-> IF PresentIn(inbox, n) THEN 1 ELSE 0,
    InWorkingDir |-> IF PresentIn(staging, n) THEN 1 ELSE 0,
    InS3 |-> IF PresentIn(remote, n) THEN 1 ELSE 0] :
     n \in {m \in Names : PresentIn(inbox, m) \/ PresentIn(staging, m)
                             \/ PresentIn(remote, m)}}

\* the step in which the workflow calls init_db() again
IsRescan == pc = "wf_confirm_upload" /\ calls' # calls

\* the place of an extension in SUPPORTED_FILE_EXTENSIONS
ExtIndex(e) ==
  CHOOSE k \in DOMAIN SUPPORTED_FILE_EXTENSIONS :
    SUPPORTED_FILE_EXTENSIONS[k] = e

\* paths is the order in which a scan of the files fs finds them: every
\* matching file once, the extensions in their configured order, the files
\* of one extension in ascending order of their paths
IsScanOrder(paths, fs) ==
  /\ {paths[i] : i \in DOMAIN paths} = Present(fs)
  /\ \A i, j \in DOMAIN paths :
       i < j =>
         /\ paths[i] # paths[j]
         /\ ExtIndex(paths[i].name.ext) <= ExtIndex(paths[j].name.ext)
         /\ paths[i].name.ext = paths[j].name.ext
              => PathLess(paths[i], paths[j])

\* the sequence s is in ascending (non-descending) order of the filenames
SortedByFilename(s) ==
  \A i, j \in DOMAIN s : i < j => ~NameLess(s[j], s[i])

\* the candidate names that start with YYYY-MM-DD, picked by hand
DatedCandidates ==
  {<<"2", "0", "2", "4", "-", "0", "1", "-", "1", "5", "-", "a">>,
   <<"2", "0", "2", "4", "-", "0", "1", "-", "2", "0", "-", "b">>,
   <<"2", "0", "2", "4", "-", "0", "2", "-", "1", "0">>,
   <<"2", "0", "2", "3", "-", "1", "2", "-", "2", "5", ".", "j">>,
   <<"1", "9", "9", "9", "-", "1", "3", "-", "0", "0", "z">>}

\* the (year, month) pairs of the dated files below the directory
DatedPairs ==
  {[year |-> SubSeq(n, 1, 4), month |-> SubSeq(n, 6, 7)] :
     n \in {m \in DatedCandidates : dropbox_dir.kind[m] = "file"}}

\* the number a string of two or four digits denotes
NumberOf(d) ==
  IF Len(d) = 2 THEN 10 * DigitValue(d[1]) + DigitValue(d[2])
  ELSE 1000 * DigitValue(d[1]) + 100 * DigitValue(d[2])
         + 10 * DigitValue(d[3]) + DigitValue(d[4])

\* combination a comes before combination b: by year, then by month
Earlier(a, b) ==
  \/ NumberOf(a.year) < NumberOf(b.year)
  \/ a.year = b.year /\ NumberOf(a.month) < NumberOf(b.month)

\* the positions of a running workflow, after its mkdir
WfPcs == {"wf_difflocal", "wf_confirm_cp", "wf_confirm_upload"}

\* the calls made so far that upserted filename f for column c
CallsFor(f, c) ==
  {i \in DOMAIN calls : calls[i] = [file_name |-> f, column |-> c]}

\* the columns filename f has been upserted for since the table was created
UpsertedFor(f) ==
  {c \in Columns :
     \E i \in DOMAIN calls : calls[i] = [file_name |-> f, column |-> c]}

\* no value stands at two positions of the sequence
NoRepeat(s) == \A i, j \in DOMAIN s : i # j => s[i] # s[j]

Next ==
  \/ Cli
  \/ CmdMkdir
  \/ CmdCp
  \/ CmdRmDropboxFiles
  \/ CmdUpload
  \/ CmdDownload
  \/ CmdDifflocal
  \/ CmdDiffbucket
  \/ WfMkdir
  \/ WfDifflocal
  \/ WfCp
  \/ WfUpload

Spec == Init /\ [][Next]_vars

(* ============================== the claims ============================= *)

\* C1: in a delete-from-inbox pass that is not a dry run, an inbox file is
\* removed only if its record has InWorkingDir = 1 and InS3 = 1 and the inbox
\* file had the same bytes as its working-dir copy when it was removed (the
\* pass changes neither before the removal)
C1_RemovedOnlyIfSyncedAndEqual ==
  RanRm =>
    \A p \in RemovedPaths :
      /\ p.dir = "."
      /\ HasRow(db, p.name)
      /\ Row(p.name).InWorkingDir = 1
      /\ Row(p.name).InS3 = 1
      /\ pre.staging[get_file_destination_path(p.name)] = pre.inbox[p]
      /\ staging[get_file_destination_path(p.name)] = pre.inbox[p]

C1_Witness == RanRm /\ RemovedPaths # {}

\* C2: when a delete pass (not a dry run, not killed by an exception before)
\* holds a first fully-synced file whose bytes differ, it stops there with a
\* non-zero exit: that file and every file found later in the pass order stay
\* in the inbox, the fully-synced files before it stay deleted
C2_AbortAtFirstMismatch ==
  (RanRm /\ last.outcome # "crash") =>
    \A i \in DOMAIN dropbox_filenames :
      FirstDiffers(i) =>
        /\ last.outcome = "abort"
        /\ ExitCode(last.outcome) # 0
        /\ Len(last.trace) = i
        /\ last.trace[i] = Entry(dropbox_filenames[i], "abort")
        /\ \A j \in i..Len(dropbox_filenames) :
             inbox[PassPath(j)] = pre.inbox[PassPath(j)]
        /\ \A k \in 1..(i - 1) :
             LET n == dropbox_filenames[k]
             IN IF Row(n).InWorkingDir = 1 /\ Row(n).InS3 = 1
                  THEN inbox[Root(n)] = NoFile
                  ELSE inbox[Root(n)] = pre.inbox[Root(n)]

\* a pass that deleted one file and then stopped at a differing one
C2_Witness ==
  /\ RanRm
  /\ last.outcome = "abort"
  /\ Len(last.trace) >= 2
  /\ RemovedPaths # {}

C4_NoDataLoss ==
  \A p \in InboxPaths :
    inbox0[p] # NoFile =>
      \/ \E q \in InboxPaths : q.name = p.name /\ inbox[q] = inbox0[p]
      \/ \E q \in RelPaths : q.name = p.name /\ staging[q] = inbox0[p]

\* C5: no step writes a file under the inbox root or removes a file or a
\* directory under the working dir; only a delete-from-inbox pass that is
\* not a dry run removes inbox files; only cp, download and mkdir create
\* files or directories under the working dir
C5_Step ==
  /\ \A p \in InboxPaths : inbox'[p] \in {inbox[p], NoFile}
  /\ \A p \in RelPaths : staging[p] # NoFile => staging'[p] # NoFile
  /\ workdirExists => workdirExists'
  /\ videoExists => videoExists'
  /\ inbox' # inbox => last'.op = "rm_dropbox_files" /\ ~last'.dryrun
  /\ (staging' # staging \/ workdirExists' # workdirExists
        \/ videoExists' # videoExists)
       => last'.op \in {"cp", "download", "mkdir"}

C5_LocalFrame == [][C5_Step]_vars

\* a download wrote into the working dir after an earlier pass had removed
\* a file from the inbox
C5_Witness ==
  /\ last.op = "download"
  /\ staging # pre.staging
  /\ inbox # inbox0

\* C6 as stated: a transfer operation run with dryrun = true leaves the
\* inbox, the working dir (files and directories) and the bucket as they were
C6_DryRunNoEffect ==
  (last.op \in TransferOps /\ last.dryrun) =>
    /\ inbox = pre.inbox
    /\ staging = pre.staging
    /\ remote = pre.remote
    /\ workdirExists = pre.workdirExists
    /\ videoExists = pre.videoExists

\* C7 as stated: a transfer operation makes the same sequence of per-file
\* decisions with dryrun = true as with dryrun = false, from the same table
\* and the same files
C7_SameDecisions ==
  (last.op \in TransferOps /\ last.outcome # "declined") =>
    last.trace = Replay(~last.dryrun).trace

\* C8: cp copies nothing for, and reports a skip of, every inbox filename
\* whose record has InWorkingDir = 1: the working-dir files of that name are
\* as before, its decision is "skip", and a pass that runs to its end has
\* reported it
C8_StagedFilesSkipped ==
  last.op = "cp" =>
    \A i \in DOMAIN dropbox_filenames :
      LET n == dropbox_filenames[i]
      IN Row(n).InWorkingDir = 1 =>
           /\ \A p \in RelPaths : p.name = n => staging[p] = pre.staging[p]
           /\ i <= Len(last.trace) => last.trace[i] = Entry(n, "skip")
           /\ last.outcome = "ok" => i <= Len(last.trace)

\* a pass that copied one file and skipped another
C8_Witness ==
  /\ last.op = "cp" /\ ~last.dryrun /\ last.outcome = "ok"
  /\ staging # pre.staging
  /\ \E i \in DOMAIN last.trace : last.trace[i].action = "skip"

\* C9 as stated: cp copies a file only when its record is inbox-only
\* (1, 0, 0)
C9_CopiesOnlyInboxOnly ==
  last.op = "cp" =>
    /\ \A i \in DOMAIN last.trace :
         last.trace[i].action = "copy" =>
           Flags(Row(dropbox_filenames[i])) = <<1, 0, 0>>
    /\ \A p \in RelPaths :
         staging[p] # pre.staging[p] => Flags(Row(p.name)) = <<1, 0, 0>>

\* C9 amended: cp copies a file only when its record has InDropbox = 1 and
\* InWorkingDir = 0, whatever InS3 is: the states (1, 0, 0) and (1, 0, 1);
\* what it writes is the inbox file, at the file's computed path
C9_CopiesOnlyUnstaged ==
  last.op = "cp" =>
    /\ \A i \in DOMAIN last.trace :
         last.trace[i].action = "copy" =>
           /\ Row(dropbox_filenames[i]).InDropbox = 1
           /\ Row(dropbox_filenames[i]).InWorkingDir = 0
    /\ \A p \in RelPaths :
         staging[p] # pre.staging[p] =>
           /\ ~last.dryrun
           /\ HasRow(db, p.name)
           /\ Row(p.name).InDropbox = 1
           /\ Row(p.name).InWorkingDir = 0
           /\ p = get_file_destination_path(p.name)
           /\ staging[p] = pre.inbox[Root(p.name)]

\* a pass that copied a file whose record was (1, 0, 1)
C9_Witness ==
  /\ last.op = "cp" /\ ~last.dryrun
  /\ \E p \in RelPaths :
       /\ staging[p] # pre.staging[p]
       /\ Flags(Row(p.name)) = <<1, 0, 1>>

\* C10: upload uploads nothing for a filename whose record has InS3 = 1:
\* the objects of that name are as before and its decision is never "upload"
C10_NoUploadIfInS3 ==
  last.op = "upload" =>
    /\ \A i \in DOMAIN last.trace :
         Row(working_dir_filenames[i]).InS3 = 1 =>
           last.trace[i].action # "upload"
    /\ \A p \in RelPaths :
         (HasRow(db, p.name) /\ Row(p.name).InS3 = 1) =>
           remote[p] = pre.remote[p]

\* a pass that uploaded one file and passed over another that was in S3
C10_Witness ==
  /\ last.op = "upload" /\ ~last.dryrun
  /\ remote # pre.remote
  /\ \E i \in DOMAIN last.trace :
       /\ Row(working_dir_filenames[i]).InS3 = 1
       /\ last.trace[i].action = "skip"

\* C11 as stated: upload uploads a file only when its record is
\* staged-pending-upload (1, 1, 0)
C11_UploadsOnlyStagedPending ==
  last.op = "upload" =>
    /\ \A i \in DOMAIN last.trace :
         last.trace[i].action = "upload" =>
           Flags(Row(working_dir_filenames[i])) = <<1, 1, 0>>
    /\ \A p \in RelPaths :
         remote[p] # pre.remote[p] => Flags(Row(p.name)) = <<1, 1, 0>>

\* C11 amended: upload uploads a file only when its record has
\* InWorkingDir = 1 and InS3 = 0, whatever InDropbox is: the states (1, 1, 0)
\* and (0, 1, 0); what it writes is the working-dir file, at the file's key
C11_UploadsOnlyStagedNotInS3 ==
  last.op = "upload" =>
    /\ \A i \in DOMAIN last.trace :
         last.trace[i].action = "upload" =>
           /\ Row(working_dir_filenames[i]).InWorkingDir = 1
           /\ Row(working_dir_filenames[i]).InS3 = 0
    /\ \A p \in RelPaths :
         remote[p] # pre.remote[p] =>
           /\ ~last.dryrun
           /\ HasRow(db, p.name)
           /\ Row(p.name).InWorkingDir = 1
           /\ Row(p.name).InS3 = 0
           /\ p.dir = (IF p.name.ext = "mov" THEN "video" ELSE ".")
           /\ remote[p] = pre.staging[get_file_destination_path(p.name)]

\* a pass that uploaded a file whose record was staging-only (0, 1, 0)
C11_Witness ==
  /\ last.op = "upload" /\ ~last.dryrun
  /\ \E p \in RelPaths :
       /\ remote[p] # pre.remote[p]
       /\ Flags(Row(p.name)) = <<0, 1, 0>>

\* C12 as stated: a download that is not a dry run downloads an object only
\* when the record of its filename is remote-only (0, 0, 1): every object it
\* fetches, and every working-dir path it writes, belongs to such a record
C12_DownloadsOnlyRemoteOnly ==
  (last.op = "download" /\ ~last.dryrun) =>
    /\ \A i \in DOMAIN last.trace :
         last.trace[i].action = "download" =>
           Flags(Row(last.trace[i].file)) = <<0, 0, 1>>
    /\ \A p \in RelPaths :
         staging[p] # pre.staging[p] => Flags(Row(p.name)) = <<0, 0, 1>>

\* C13: after any sequence of upserts, every filename that was upserted for
\* a non-empty set S of locations has one record whose flag is 1 exactly
\* for the locations of S and 0 for the others, whatever the order and the
\* number of the calls; a filename never upserted has no record
C13_FlagsAreUpsertedLocations ==
  \A f \in Names :
    IF UpsertedFor(f) = {}
      THEN ~HasRow(db, f)
      ELSE /\ HasRow(db, f)
           /\ \A c \in Columns :
                Row(f)[c] = (IF c \in UpsertedFor(f) THEN 1 ELSE 0)

\* a filename upserted twice for the bucket and then once for the inbox,
\* against the order of init_db, and never for the working dir
C13_Witness ==
  /\ pc = "db_manager"
  /\ Len(calls) = 3
  /\ calls[1].column = "InS3"
  /\ calls[2] = calls[1]
  /\ calls[3] = [file_name |-> calls[1].file_name, column |-> "InDropbox"]
  /\ Flags(Row(calls[1].file_name)) = <<1, 0, 1>>

\* C14: no record of the table has all three flags 0
C14_NoAllFalseRecord ==
  \A i \in DOMAIN db : Flags(db[i]) # <<0, 0, 0>>

\* a table of a command-line run that holds a record with a single flag
\* and a record with all three
C14_Witness ==
  /\ pc = "ctx"
  /\ \E i \in DOMAIN db : Flags(db[i]) = <<0, 0, 1>>
  /\ \E i \in DOMAIN db : Flags(db[i]) = <<1, 1, 1>>

\* C15: the table holds at most one record per filename
C15_OneRecordPerFilename ==
  \A i, j \in DOMAIN db : db[i].Filename = db[j].Filename => i = j

\* a filename that the inbox scan found twice and the working-dir scan and
\* the bucket listing found too
C15_Witness ==
  /\ pc = "ctx"
  /\ \E i, j \in DOMAIN dropbox_filenames :
       /\ i # j
       /\ dropbox_filenames[i] = dropbox_filenames[j]
       /\ \E k \in DOMAIN working_dir_filenames :
            working_dir_filenames[k] = dropbox_filenames[i]
       /\ \E k \in DOMAIN bucket_filenames :
            bucket_filenames[k] = dropbox_filenames[i]
       /\ HasRow(db, dropbox_filenames[i])

\* C16: on every table, for every filename and column, a second call of
\* upsert_file_location with the same arguments leaves the table that the
\* first call made
C16_UpsertIdempotent ==
  \A f \in Names, c \in Columns :
    upsert_file_location(upsert_file_location(db, f, c), f, c)
      = upsert_file_location(db, f, c)

\* a table of two records on which the last call repeated the one before
C16_Witness ==
  /\ pc = "db_manager"
  /\ Len(calls) >= 3
  /\ calls[Len(calls)] = calls[Len(calls) - 1]
  /\ Len(db) = 2

\* C17: an upsert keeps every record at its place and every flag that is 1
C17_Step ==
  \A i \in DOMAIN db :
    /\ i \in DOMAIN db'
    /\ db'[i].Filename = db[i].Filename
    /\ \A c \in Columns : db[i][c] = 1 => db'[i][c] = 1

C17_FlagsMonotonic == [][C17_Step]_vars

\* a record whose flag was set by the first call and is still 1 after
\* upserts of another filename and of another column of the same filename
C17_Witness ==
  /\ pc = "db_manager"
  /\ Len(calls) >= 3
  /\ calls[2].file_name # calls[1].file_name
  /\ calls[3].file_name = calls[1].file_name
  /\ calls[3].column # calls[1].column
  /\ Row(calls[1].file_name)[calls[1].column] = 1

\* C18 as stated: the re-scan of the workflow is a full rebuild: the table
\* it leaves holds exactly the filenames present when it scans, each with
\* flags equal to its presence in inbox, working dir and bucket at that time
C18_Step == IsRescan => Rows(db') = PresenceRows

C18_RescanIsFullRebuild == [][C18_Step]_vars

\* C19, the part that holds as stated: the workflow goes from its scan to
\* difflocal, to the first prompt, to cp, to the second prompt, to upload,
\* and to nowhere else; no working-dir file is written except by cp after
\* the first prompt was accepted; no object is written except by upload
\* after the second prompt was accepted, on a table scanned again after cp;
\* a declined prompt ends the run and changes nothing
C19_OrderStep ==
  /\ pc' = "wf_difflocal" => pc = "ctx" /\ last'.op = "mkdir"
  /\ pc' = "wf_confirm_cp" => pc = "wf_difflocal" /\ last'.op = "difflocal"
  /\ pc' = "wf_confirm_upload" => pc = "wf_confirm_cp" /\ last'.op = "cp"
  /\ pc \in WfPcs => pc' \in WfPcs \cup {"idle"}
  /\ pc = "wf_confirm_upload" => pc' = "idle"
  /\ (pc \in WfPcs /\ staging' # staging) =>
       pc = "wf_confirm_cp" /\ last'.op = "cp" /\ ~dryrunOpt
  /\ (pc \in WfPcs /\ remote' # remote) =>
       /\ pc = "wf_confirm_upload" /\ last'.op = "upload" /\ ~dryrunOpt
       /\ calls' # calls
       /\ db' = init_db(db).db
       /\ working_dir_filenames' = _scan_directory(staging)
  /\ (pc \in WfPcs /\ last'.op = "confirm") =>
       /\ pc \in {"wf_confirm_cp", "wf_confirm_upload"}
       /\ last'.outcome = "declined"
       /\ pc' = "idle"
       /\ UNCHANGED <<world, ctx>>

\* C19 as stated: the steps of the workflow occur in the order scan, diff,
\* confirm, copy, re-scan, confirm, upload: when the second confirmation is
\* asked the re-scan after the copy has been made, so that scanning again
\* would change nothing and the step that takes the answer scans no more
C19_RescanThenConfirmStep ==
  /\ C19_OrderStep
  /\ pc = "wf_confirm_upload" => db = init_db(db).db /\ calls' = calls

C19_RescanThenConfirm == [][C19_RescanThenConfirmStep]_vars

\* C19 amended: the order is scan, diff, confirm, copy, confirm, re-scan,
\* upload: the table is scanned again only in the step that accepts the
\* second confirmation, immediately before upload reads it
C19_ConfirmThenRescanStep ==
  /\ C19_OrderStep
  /\ (pc \in WfPcs /\ calls' # calls) =>
       pc = "wf_confirm_upload" /\ last'.op = "upload"
  /\ pc \in WfPcs \ {"wf_confirm_upload"} => UNCHANGED ctx

C19_ConfirmThenRescan == [][C19_ConfirmThenRescanStep]_vars

\* a workflow that ran to its end: the video was found in the inbox by both
\* scans, in the working dir only by the second, and was then uploaded
C19_Witness ==
  /\ pc = "idle" /\ last.op = "upload" /\ ~last.dryrun
  /\ Cardinality(CallsFor(NameOf(1), "InDropbox")) = 2
  /\ Cardinality(CallsFor(NameOf(1), "InWorkingDir")) = 1
  /\ remote[bucket_key(NameOf(1))] # pre.remote[bucket_key(NameOf(1))]

\* C20 as stated: for every file whose record was inbox-only (1, 0, 0) when
\* a cp that is not a dry run started (its prompt, if any, accepted), the
\* inbox file is at its computed working-dir path afterwards, and a scan
\* made then, on a new table or on the same one, gives it (1, 1, 0)
C20_InboxOnlyBecomesStaged ==
  (last.op = "cp" /\ ~last.dryrun /\ last.outcome # "declined") =>
    \A i \in DOMAIN db :
      Flags(db[i]) = <<1, 0, 0>> =>
        LET n == db[i].Filename
        IN /\ staging[get_file_destination_path(n)] # NoFile
           /\ \E p \in InboxPaths :
                /\ p.name = n
                /\ staging[get_file_destination_path(n)] = pre.inbox[p]
           /\ Flags(get_file_row(init_db(<<>>).db, n)) = <<1, 1, 0>>
           /\ Flags(get_file_row(init_db(db).db, n)) = <<1, 1, 0>>

\* C21 as stated: a delete pass that is not a dry run and holds no
\* fully-synced file whose bytes differ removes from the inbox every file
\* whose record is (1, 1, 1) and whose inbox file has the bytes of its
\* working-dir copy, and leaves every working-dir file and object as it was
C21_SyncedIdenticalRemoved ==
  (RanRm /\ \A i \in DOMAIN dropbox_filenames :
              ~Differs(dropbox_filenames[i])) =>
    /\ \A i \in DOMAIN dropbox_filenames :
         LET n == dropbox_filenames[i]
         IN (/\ Flags(Row(n)) = <<1, 1, 1>>
             /\ pre.inbox[Root(n)] # NoFile
             /\ pre.inbox[Root(n)] = pre.staging[get_file_destination_path(n)])
              => inbox[Root(n)] = NoFile
    /\ staging = pre.staging
    /\ remote = pre.remote

\* C22 as stated: for every object below the prefix whose filename is in
\* neither inbox nor working dir when a download that is not a dry run
\* starts (its prompt, if any, accepted): the record is (0, 0, 1), diffbucket
\* prints "s3 only" for it, the download writes the object at its path in
\* an existing directory, and a scan made then gives InWorkingDir = 1
C22_RemoteOnlyDownloaded ==
  (last.op = "download" /\ ~last.dryrun /\ last.outcome # "declined") =>
    \A key \in Present(pre.remote) :
      (~PresentIn(pre.inbox, key.name) /\ ~PresentIn(pre.staging, key.name)) =>
        /\ HasRow(db, key.name)
        /\ Flags(Row(key.name)) = <<0, 0, 1>>
        /\ \E i \in DOMAIN diffbucket(pre, db).trace :
             diffbucket(pre, db).trace[i] = Entry(key.name, "s3 only")
        /\ key = get_file_destination_path(key.name)
        /\ staging[key] = pre.remote[key]
        /\ ParentExists(World, key)
        /\ HasRow(init_db(<<>>).db, key.name)
        /\ get_file_row(init_db(<<>>).db, key.name).InWorkingDir = 1

\* C23 as stated: every record of the table has a filename whose extension
\* is one of the supported ones and that one of the partition's glob
\* patterns matches
C23_OnlySupportedNames ==
  \A i \in DOMAIN db :
    /\ \E k \in DOMAIN SUPPORTED_FILE_EXTENSIONS :
         db[i].Filename.ext = SUPPORTED_FILE_EXTENSIONS[k]
    /\ \E k \in DOMAIN SUPPORTED_FILE_EXTENSIONS :
         GlobMatches(Root(db[i].Filename), SUPPORTED_FILE_EXTENSIONS[k])

C25_MissingRootScansEmpty ==
  /\ (pc = "ctx" /\ ~workdirExists) =>
       /\ working_dir_filenames = <<>>
       /\ \A i \in DOMAIN db : db[i].InWorkingDir = 0
       /\ (Present(inbox) = {} /\ Present(remote) = {}) => db = <<>>
  /\ (last.op \in {"difflocal", "diffbucket"} /\ db = <<>>) =>
       /\ last.outcome = "ok"
       /\ ExitCode(last.outcome) = 0
       /\ last.trace = <<>>

\* a report that ran on the empty table of a partition without working dir
C25_Witness ==
  /\ last.op = "diffbucket"
  /\ ~workdirExists
  /\ db = <<>>
  /\ Present(inbox) = {} /\ Present(remote) = {}
  /\ last.outcome = "ok"

\* C26: detect_year_month_combinations returns exactly the (year, month)
\* pairs of the files whose names start with YYYY-MM-DD, each pair once, in
\* ascending order of year, then month; other names and directories add
\* nothing; an empty or missing directory gives the empty list
C26_DetectsYearMonthPairs ==
  pc = "detected" =>
    /\ {combinations[i] : i \in DOMAIN combinations} = DatedPairs
    /\ \A i, j \in DOMAIN combinations :
         i < j => Earlier(combinations[i], combinations[j])
    /\ (~dropbox_dir.exists
          \/ \A n \in CandidateNames : dropbox_dir.kind[n] # "file")
         => combinations = <<>>

\* a directory with two files of one month, files of other months, a file
\* whose date is not at the start of its name and a directory with a dated
\* name: three pairs are returned
C26_Witness ==
  /\ pc = "detected"
  /\ dropbox_dir.kind[<<"2", "0", "2", "4", "-", "0", "1", "-", "1", "5", "-", "a">>] = "dir"
  /\ dropbox_dir.kind[<<"2", "0", "2", "4", "-", "0", "1", "-", "2", "0", "-", "b">>] = "file"
  /\ dropbox_dir.kind[<<"2", "0", "2", "4", "-", "0", "2", "-", "1", "0">>] = "file"
  /\ dropbox_dir.kind[<<"2", "0", "2", "3", "-", "1", "2", "-", "2", "5", ".", "j">>] = "file"
  /\ dropbox_dir.kind[<<"a", "2", "0", "2", "4", "-", "0", "1", "-", "1", "5">>] = "file"
  /\ Len(combinations) = 3
\* C27: the report of diffbucket holds exactly one line for every record of
\* the table, the lines in ascending order of Filename: "found in s3 &
\* workdir" when InWorkingDir and InS3 are both 1, "workdir only" when of
\* the two only InWorkingDir is 1, "s3 only" for the record (0, 0, 1),
\* "dropbox only" for the record (1, 0, 0); the command ends normally
C27_BucketDiffOneStatusPerRecord ==
  last.op = "diffbucket" =>
    LET report == last.trace
        Filenames == {db[i].Filename : i \in DOMAIN db}
    IN /\ last.outcome = "ok"
       /\ Len(report) = Cardinality(Filenames)
       /\ {report[i].file : i \in DOMAIN report} = Filenames
       /\ \A i, j \in DOMAIN report :
            i < j => NameLess(report[i].file, report[j].file)
       /\ \A i \in DOMAIN report :
            LET row == Row(report[i].file)
                status == report[i].action
            IN /\ (row.InWorkingDir = 1 /\ row.InS3 = 1)
                    => status = "found in s3 & workdir"
               /\ (row.InWorkingDir = 1 /\ row.InS3 = 0)
                    => status = "workdir only"
               /\ Flags(row) = <<0, 0, 1>> => status = "s3 only"
               /\ Flags(row) = <<1, 0, 0>> => status = "dropbox only"

\* a report of three lines with three statuses: "s3 only" for the object
\* of the bucket that is no media file, "dropbox only" and "workdir only"
C27_Witness ==
  /\ last.op = "diffbucket"
  /\ Len(last.trace) = 3
  /\ {last.trace[i].action : i \in DOMAIN last.trace}
       = {"workdir only", "s3 only", "dropbox only"}
  /\ \E i \in DOMAIN last.trace : last.trace[i].file \in ForeignNames

\* C28 as stated: the report of difflocal holds one line for every record of
\* the table: "diff OK" when InDropbox and InWorkingDir are 1 and the inbox
\* file has the bytes of the working-dir copy, "diff NOT OK" when they are
\* 1 and the bytes differ, "dropbox only" when of the two only InDropbox is
\* 1, "s3 only" for the record (0, 0, 1); the command goes through every
\* record and ends normally
C28_LocalDiffStatusForEveryRecord ==
  last.op = "difflocal" =>
    LET report == last.trace
        Filenames == {db[i].Filename : i \in DOMAIN db}
    IN /\ last.outcome = "ok"
       /\ Len(report) = Cardinality(Filenames)
       /\ {report[i].file : i \in DOMAIN report} = Filenames
       /\ \A i \in DOMAIN report :
            LET n == report[i].file
                row == Row(n)
                status == report[i].action
                same == pre.inbox[Root(n)]
                          = pre.staging[get_file_destination_path(n)]
            IN /\ (row.InDropbox = 1 /\ row.InWorkingDir = 1 /\ same)
                    => status = "diff OK"
               /\ (row.InDropbox = 1 /\ row.InWorkingDir = 1 /\ ~same)
                    => status = "diff NOT OK"
               /\ (row.InDropbox = 1 /\ row.InWorkingDir = 0)
                    => status = "dropbox only"
               /\ Flags(row) = <<0, 0, 1>> => status = "s3 only"

\* C29 as stated: when a copy, an upload or a download raises, the pass
\* ends there with a failure status; in that pass no file's transfer was
\* attempted twice, no flag of the table has changed, and the locations the
\* operation does not write to (the inbox; the bucket for cp and download;
\* the working dir for upload) are as they were
C29_TransferFailureNotRetried ==
  [][(/\ pc = "ctx"
      /\ last'.op \in {"cp", "upload", "download"}
      /\ last'.outcome = "crash") =>
       LET attempts == last'.trace
           Transfers == {i \in DOMAIN attempts :
                           attempts[i].action \in {"copy", "upload", "download"}}
       IN /\ \A i, j \in Transfers :
               i # j => attempts[i].file # attempts[j].file
          /\ Transfers # {} /\ Len(attempts) \in Transfers
          /\ ExitCode(last'.outcome) # 0
          /\ pc' = "idle"
          /\ db' = db
          /\ inbox' = inbox
          /\ last'.op \in {"cp", "download"} => remote' = remote
          /\ last'.op = "upload" => staging' = staging]_vars

\* C30: in a delete pass, dry run or not, a file whose record has
\* InWorkingDir = 0 or InS3 = 0 is skipped: its inbox file stays as it was,
\* the pass does not end at it (no comparison is made that could raise or
\* find a difference) and goes on to the next position, and a pass that
\* holds only such files ends with exit status 0
C30_NotSyncedIsSkipped ==
  last.op = "rm_dropbox_files" =>
    LET names == dropbox_filenames
        report == last.trace
        NotSynced == {i \in DOMAIN names :
                        \/ Row(names[i]).InWorkingDir = 0
                        \/ Row(names[i]).InS3 = 0}
        \* the position at which the pass ended
        stop == IF last.outcome = "ok" THEN Len(names) + 1
                ELSE IF last.outcome = "abort" THEN Len(report)
                ELSE Len(report) + 1
    IN /\ \A i \in NotSynced :
            /\ inbox[Root(names[i])] = pre.inbox[Root(names[i])]
            /\ i # stop
            /\ i < stop => report[i] = Entry(names[i], "skip")
       /\ NotSynced = DOMAIN names =>
            /\ ExitCode(last.outcome) = 0
            /\ Len(report) = Len(names)
            /\ inbox = pre.inbox

\* a pass that is not a dry run skipped a staged file that is not in the
\* bucket and whose bytes differ from its working-dir copy, and went on to
\* delete a later, fully-synced file
C30_Witness ==
  /\ RanRm
  /\ last.outcome = "ok"
  /\ \E i, j \in DOMAIN last.trace :
       LET n == last.trace[i].file
       IN /\ i < j
          /\ last.trace[i].action = "skip"
          /\ Flags(Row(n)) = <<1, 1, 0>>
          /\ pre.inbox[Root(n)] # pre.staging[get_file_destination_path(n)]
          /\ last.trace[j].action = "delete"
          /\ inbox[Root(last.trace[j].file)] = NoFile

\* C31 as stated: for either device, every name a scan returns whose
\* extension is a video extension (mov, 3gp, mp4, in lower or upper case)
\* gets the video child of the partition directory as working-dir path and
\* as bucket key, and every name with an image extension gets the
\* partition directory itself in both
C31_VideoResolvesToVideoChild ==
  pc = "resolved" =>
    \A i \in DOMAIN resolved :
      LET r == resolved[i]
          where == IF r.filename.ext \in {"mov", "MOV", "3gp", "3GP",
                                           "mp4", "MP4"}
                     THEN "video" ELSE "."
      IN /\ r.dest_path = [dir |-> where, name |-> r.filename]
         /\ r.bucket_key = [dir |-> where, name |-> r.filename]

\* C32: after a cp that was not a dry run and ran to its end, a new
\* invocation (a fresh table filled by a scan of the three locations) running
\* cp, as a dry run or not, copies no file and leaves the working dir as it
\* is; after an upload that was not a dry run and ran to its end, a new
\* invocation running upload uploads no file and leaves the bucket as it is
C32_SecondPassDoesNothing ==
  /\ (last.op = "cp" /\ ~last.dryrun /\ last.outcome = "ok") =>
       LET c == init_db(<<>>)
       IN \A dryrun \in BOOLEAN, confirm \in Answers(World) :
            LET second == cp(World, c.db, c.dropbox_filenames, dryrun, confirm)
            IN /\ second.outcome = "ok"
               /\ Len(second.trace) = Len(c.dropbox_filenames)
               /\ \A i \in DOMAIN second.trace :
                    second.trace[i].action = "skip"
               /\ second.w = World
  /\ (last.op = "upload" /\ ~last.dryrun /\ last.outcome = "ok") =>
       LET c == init_db(<<>>)
       IN \A dryrun \in BOOLEAN :
            LET second == upload(World, c.db, c.working_dir_filenames, dryrun)
            IN /\ second.outcome = "ok"
               /\ Len(second.trace) = Len(c.working_dir_filenames)
               /\ \A i \in DOMAIN second.trace :
                    second.trace[i].action = "skip"
               /\ second.w = World

\* a cp that copied two files has run to its end
C32_Witness ==
  /\ last.op = "cp" /\ ~last.dryrun /\ last.outcome = "ok"
  /\ Cardinality({i \in DOMAIN last.trace :
                    last.trace[i].action = "copy"}) >= 2
  /\ staging # pre.staging

\* an upload that uploaded two files has run to its end
C32_WitnessUpload ==
  /\ last.op = "upload" /\ ~last.dryrun /\ last.outcome = "ok"
  /\ Cardinality({i \in DOMAIN last.trace :
                    last.trace[i].action = "upload"}) >= 2
  /\ remote # pre.remote

\* C33 as stated: the lists a scan hands to cp, rm_dropbox_files and upload
\* hold each filename at most once, also when a file of that name exists in
\* the scanned directory and in a subdirectory of it, and a pass of cp,
\* upload or rm_dropbox_files acts on no filename at two positions
C33_EachFileOncePerPass ==
  /\ NoRepeat(dropbox_filenames)
  /\ NoRepeat(working_dir_filenames)
  /\ last.op \in {"cp", "upload", "rm_dropbox_files"} =>
       NoRepeat([i \in DOMAIN last.trace |-> last.trace[i].file])

\* C34 as stated: a started workflow comes to its end; when it was not a
\* dry run and no prompt was declined, it ends after its upload, without an
\* exception, and every filename of the inbox scan has a file in the working
\* dir and an object in the bucket; the delete pass that follows removes
\* every one of them from Camera Uploads
C34_WorkflowBacksUpEverything ==
  /\ [](pc = "ctx" => <>(pc = "idle"))
  /\ []((/\ pc = "idle" /\ last.op # "none"
          /\ ~last.dryrun /\ last.outcome # "declined") =>
          /\ last.op = "upload" /\ last.outcome = "ok"
          /\ \A i \in DOMAIN dropbox_filenames :
               LET n == dropbox_filenames[i]
               IN /\ \E p \in RelPaths : p.name = n /\ staging[p] # NoFile
                  /\ \E p \in RelPaths : p.name = n /\ remote[p] # NoFile)
  /\ [](pc = "done" =>
          \A i \in DOMAIN dropbox_filenames :
            inbox[Root(dropbox_filenames[i])] = NoFile)

\* C35: for every file a scan of the working dir returns, whatever the
\* device, download writes the object of the key upload computed for the
\* file to the path upload read the file from: the partition directory for
\* an image, its video child for a video
C35_DownloadInvertsUpload ==
  pc = "downloaded" =>
    \A i \in DOMAIN resolved :
      LET r == resolved[i]
          parts == r.dest_path
      IN /\ r.dest_path = r.workdir_file_path
         /\ parts[Len(parts)] = FileName(r.filename)
         /\ (parts[Len(parts) - 1] = "video")
              <=> (r.filename.ext \in {"mov", "3gp", "mp4"})

\* a video of a device whose name holds a slash: the key is
\* photos/2024/01/my/phone/video/2024-01-05-IMG.mov
C35_Witness ==
  /\ pc = "downloaded"
  /\ device = "my/phone"
  /\ Len(resolved) = 1
  /\ resolved[1].bucket_key =
       <<"photos", "/", "2024", "/", "01", "/", "my", "/", "phone", "/",
         "video", "/", "2024-01-05-IMG.mov">>
  /\ resolved[1].dest_path =
       <<"~", "Pictures", "s3", "my-bucket", "photos", "2024", "01", "my",
         "phone", "video", "2024-01-05-IMG.mov">>

====
